---- MODULE Spec2Model ----
(***************************************************************************)
(* A model of run0-sudo-shim (src/src/main.rs): a sudo command line is     *)
(* split into flags and a trailing command, the flags are parsed and       *)
(* validated, and an argument vector for run0 is built and exec'ed.        *)
(*                                                                         *)
(* A command-line token is a sequence of one-character strings, so that    *)
(* prefix tests, formatting and the shell escaping work on characters.     *)
(* Diagnostics are tuples <<text>> or <<text, argument>>.                  *)
(***************************************************************************)
EXTENDS Integers, Sequences, FiniteSets, TLC

VARIABLES
    argv,      \* std::env::args_os() after argv[0]
    env,       \* the process environment: SUDO_ASKPASS, SUDO_PROMPT, SHELL
    passwd,    \* the account database and the invoking uid
    pc,        \* position in main
    cmd,       \* the arguments of std::process::Command::new("run0")
    flagToks,  \* the tokens handed to SudoArgs::parse_from after arg0
    rest,      \* what is left in raw_args after parse_from
    args,      \* the parsed SudoArgs
    command,   \* the trailing command as Vec<String>
    stderr,    \* the diagnostics printed
    status,    \* the exit status, -1 while running or after a successful exec
    lookups    \* the account database queries made

vars == <<argv, env, passwd, pc, cmd, flagToks, rest, args, command, stderr, status, lookups>>

(***************************************************************************)
(* Characters and strings                                                  *)
(***************************************************************************)

\* A byte that is not valid UTF-8 (an OsString may hold one).
BadByte == "0xFF"

AsciiAlphanumeric == {"a", "b", "c", "d", "e", "f", "g", "h", "i", "j", "k", "l", "m", "n", "o", "p", "q", "r", "s", "t", "u", "v", "w", "x", "y", "z", "A", "B", "C", "D", "E", "F", "G", "H", "I", "J", "K", "L", "M", "N", "O", "P", "Q", "R", "S", "T", "U", "V", "W", "X", "Y", "Z", "0", "1", "2", "3", "4", "5", "6", "7", "8", "9"}

Digits == {"0", "1", "2", "3", "4", "5", "6", "7", "8", "9"}

DigitValue == ("0" :> 0) @@ ("1" :> 1) @@ ("2" :> 2) @@ ("3" :> 3) @@ ("4" :> 4)
              @@ ("5" :> 5) @@ ("6" :> 6) @@ ("7" :> 7) @@ ("8" :> 8) @@ ("9" :> 9)

StartsWith(s, prefix) ==
    /\ Len(s) >= Len(prefix)
    /\ SubSeq(s, 1, Len(prefix)) = prefix

DropFirst(s, n) == SubSeq(s, n + 1, Len(s))

IsUtf8(s) == \A i \in 1..Len(s) : s[i] # BadByte

\* The position of the first c in s, 0 when there is none.
IndexOf(s, c) ==
    IF \E i \in 1..Len(s) : s[i] = c
    THEN CHOOSE i \in 1..Len(s) : s[i] = c /\ \A j \in 1..(i - 1) : s[j] # c
    ELSE 0

RECURSIVE Split(_, _)
Split(s, sep) ==
    LET i == IndexOf(s, sep)
    IN  IF i = 0 THEN <<s>>
        ELSE <<SubSeq(s, 1, i - 1)>> \o Split(DropFirst(s, i), sep)

RECURSIVE ParseU64(_, _)
ParseU64(s, acc) ==
    IF s = <<>> THEN acc ELSE ParseU64(Tail(s), acc * 10 + DigitValue[Head(s)])

\* u64::from_str: an optional '+', then one or more decimal digits.
IsU64(s) ==
    LET d == IF s # <<>> /\ Head(s) = "+" THEN Tail(s) ELSE s
    IN  d # <<>> /\ \A i \in 1..Len(d) : d[i] \in Digits

U64(s) == ParseU64(IF Head(s) = "+" THEN Tail(s) ELSE s, 0)

None == [some |-> FALSE, val |-> <<>>]
Some(v) == [some |-> TRUE, val |-> v]

(***************************************************************************)
(* SudoArgs and its clap parser                                            *)
(***************************************************************************)

DefaultArgs ==
    [ askpass |-> FALSE, bell |-> FALSE, background |-> FALSE, close_from |-> 3,
      preserve_all_env |-> FALSE, preserve_env |-> <<>>, edit |-> FALSE,
      group |-> None, set_home |-> FALSE, host |-> None,
      remove_timestamp |-> FALSE, reset_timestamp |-> FALSE, list |-> FALSE,
      no_update |-> FALSE, non_interactive |-> FALSE, preserve_groups |-> FALSE,
      prompt |-> None, chroot |-> None, stdin |-> FALSE, other_user |-> None,
      command_timeout |-> None, user |-> None, chdir |-> None, validate |-> FALSE,
      login |-> FALSE, shell |-> FALSE ]

BoolFields ==
    { "askpass", "bell", "background", "preserve_all_env", "edit", "set_home",
      "remove_timestamp", "reset_timestamp", "list", "no_update", "non_interactive",
      "preserve_groups", "stdin", "validate", "login", "shell" }

StringFields == { "group", "host", "prompt", "other_user", "command_timeout", "user" }

PathFields == { "chroot", "chdir" }

\* #[arg(short ...)]: the option letter of each field.
ShortOf ==
    ("A" :> "askpass") @@ ("B" :> "bell") @@ ("b" :> "background")
    @@ ("C" :> "close_from") @@ ("E" :> "preserve_all_env") @@ ("e" :> "edit")
    @@ ("g" :> "group") @@ ("H" :> "set_home") @@ ("K" :> "remove_timestamp")
    @@ ("k" :> "reset_timestamp") @@ ("l" :> "list") @@ ("N" :> "no_update")
    @@ ("n" :> "non_interactive") @@ ("P" :> "preserve_groups") @@ ("p" :> "prompt")
    @@ ("R" :> "chroot") @@ ("S" :> "stdin") @@ ("U" :> "other_user")
    @@ ("T" :> "command_timeout") @@ ("u" :> "user") @@ ("D" :> "chdir")
    @@ ("v" :> "validate") @@ ("i" :> "login") @@ ("s" :> "shell")

\* #[arg(long ...)]: the long name of each field that has one.
LongOf ==
    (<<"a", "s", "k", "p", "a", "s", "s">> :> "askpass") @@ (<<"b", "e", "l", "l">> :> "bell") @@ (<<"b", "a", "c", "k", "g", "r", "o", "u", "n", "d">> :> "background")
    @@ (<<"c", "l", "o", "s", "e", "-", "f", "r", "o", "m">> :> "close_from") @@ (<<"p", "r", "e", "s", "e", "r", "v", "e", "-", "e", "n", "v">> :> "preserve_env")
    @@ (<<"e", "d", "i", "t">> :> "edit") @@ (<<"g", "r", "o", "u", "p">> :> "group") @@ (<<"s", "e", "t", "-", "h", "o", "m", "e">> :> "set_home")
    @@ (<<"h", "o", "s", "t">> :> "host") @@ (<<"r", "e", "m", "o", "v", "e", "-", "t", "i", "m", "e", "s", "t", "a", "m", "p">> :> "remove_timestamp")
    @@ (<<"r", "e", "s", "e", "t", "-", "t", "i", "m", "e", "s", "t", "a", "m", "p">> :> "reset_timestamp") @@ (<<"l", "i", "s", "t">> :> "list")
    @@ (<<"n", "o", "-", "u", "p", "d", "a", "t", "e">> :> "no_update") @@ (<<"n", "o", "n", "-", "i", "n", "t", "e", "r", "a", "c", "t", "i", "v", "e">> :> "non_interactive")
    @@ (<<"p", "r", "e", "s", "e", "r", "v", "e", "-", "g", "r", "o", "u", "p", "s">> :> "preserve_groups") @@ (<<"p", "r", "o", "m", "p", "t">> :> "prompt")
    @@ (<<"c", "h", "r", "o", "o", "t">> :> "chroot") @@ (<<"s", "t", "d", "i", "n">> :> "stdin") @@ (<<"o", "t", "h", "e", "r", "-", "u", "s", "e", "r">> :> "other_user")
    @@ (<<"c", "o", "m", "m", "a", "n", "d", "-", "t", "i", "m", "e", "o", "u", "t">> :> "command_timeout") @@ (<<"u", "s", "e", "r">> :> "user")
    @@ (<<"c", "h", "d", "i", "r">> :> "chdir") @@ (<<"v", "a", "l", "i", "d", "a", "t", "e">> :> "validate") @@ (<<"l", "o", "g", "i", "n">> :> "login")
    @@ (<<"s", "h", "e", "l", "l">> :> "shell")

\* #[command(version, about)]: clap's own -h/--help and -V/--version.
DisplayShort == {"h", "V"}
DisplayLong == { <<"h", "e", "l", "p">>, <<"v", "e", "r", "s", "i", "o", "n">> }

\* The state of the parser: kind is "ok", "error" (clap exits with 2) or
\* "display" (help or version, clap exits with 0); pending names the option
\* whose value is expected in the next token.
ParserStart == [kind |-> "ok", a |-> DefaultArgs, seen |-> {}, pending |-> ""]

ParserFail(st) == [st EXCEPT !.kind = "error", !.pending = ""]

\* One occurrence of a flag (no value).
SetFlag(st, f) ==
    IF f \notin BoolFields \/ f \in st.seen THEN ParserFail(st)
    ELSE [st EXCEPT !.a[f] = TRUE, !.seen = @ \cup {f}]

\* One occurrence of an option with its value.
SetValue(st, f, v) ==
    IF f = "preserve_env"
    THEN IF IsUtf8(v)
         THEN [st EXCEPT !.a.preserve_env = @ \o Split(v, ","), !.seen = @ \cup {f}, !.pending = ""]
         ELSE ParserFail(st)
    ELSE IF f \in st.seen THEN ParserFail(st)
    ELSE IF f = "close_from"
    THEN IF IsU64(v)
         THEN [st EXCEPT !.a.close_from = U64(v), !.seen = @ \cup {f}, !.pending = ""]
         ELSE ParserFail(st)
    ELSE IF f \in StringFields
    THEN IF IsUtf8(v)
         THEN [st EXCEPT !.a[f] = Some(v), !.seen = @ \cup {f}, !.pending = ""]
         ELSE ParserFail(st)
    ELSE IF f \in PathFields
    THEN [st EXCEPT !.a[f] = Some(v), !.seen = @ \cup {f}, !.pending = ""]
    ELSE ParserFail(st)

\* The letters of one token after its '-': flags may be clustered, and an
\* option takes the remainder of the token (less a leading '=') as its value,
\* or the next token when nothing remains.
RECURSIVE ParseShort(_, _)
ParseShort(st, cluster) ==
    IF st.kind # "ok" \/ cluster = <<>> THEN st
    ELSE LET c == Head(cluster)
             r == Tail(cluster)
         IN  IF c \in DisplayShort THEN [st EXCEPT !.kind = "display"]
             ELSE IF c \notin DOMAIN ShortOf THEN ParserFail(st)
             ELSE IF ShortOf[c] \in BoolFields THEN ParseShort(SetFlag(st, ShortOf[c]), r)
             ELSE IF r = <<>> THEN [st EXCEPT !.pending = ShortOf[c]]
             ELSE SetValue(st, ShortOf[c], IF Head(r) = "=" THEN Tail(r) ELSE r)

\* One token after its "--": name or name=value.
ParseLong(st, body) ==
    LET eq == IndexOf(body, "=")
        name == IF eq = 0 THEN body ELSE SubSeq(body, 1, eq - 1)
    IN  IF name \in DisplayLong THEN [st EXCEPT !.kind = "display"]
        ELSE IF name \notin DOMAIN LongOf THEN ParserFail(st)
        ELSE IF LongOf[name] \in BoolFields
        THEN IF eq = 0 THEN SetFlag(st, LongOf[name]) ELSE ParserFail(st)
        ELSE IF eq = 0 THEN [st EXCEPT !.pending = LongOf[name]]
        ELSE SetValue(st, LongOf[name], DropFirst(body, eq))

\* One token. A lone "-" is a value: that of the pending option, or an
\* unexpected positional. Any other token is a new argument, which a pending
\* option does not take as its value.
ParseToken(st, tok) ==
    IF tok = <<"-">>
    THEN IF st.pending # "" THEN SetValue(st, st.pending, tok) ELSE ParserFail(st)
    ELSE IF st.pending # "" THEN ParserFail(st)
    ELSE IF StartsWith(tok, <<"-", "-">>) THEN ParseLong(st, DropFirst(tok, 2))
    ELSE ParseShort(st, DropFirst(tok, 1))

RECURSIVE ParseTokens(_, _)
ParseTokens(st, toks) ==
    IF st.kind # "ok" \/ toks = <<>> THEN st
    ELSE ParseTokens(ParseToken(st, Head(toks)), Tail(toks))

\* SudoArgs::parse_from on flag tokens: after the last token a pending option
\* lacks its value, and #[group(multiple = false)] forbids login with shell.
ParseFrom(toks) ==
    LET st == ParseTokens(ParserStart, toks)
    IN  IF st.kind # "ok" THEN st
        ELSE IF st.pending # "" THEN ParserFail(st)
        ELSE IF st.a.login /\ st.a.shell THEN ParserFail(st)
        ELSE st

\* ShellArgs::no_shell
no_shell(a) == ~a.login /\ ~a.shell

(***************************************************************************)
(* The split of the raw arguments                                          *)
(***************************************************************************)

\* The split with the "--" peeked at and left in raw_args.
RECURSIVE TakeFlagsKeepDashDash(_, _)
TakeFlagsKeepDashDash(raw, i) ==
    IF i > Len(raw) \/ ~StartsWith(raw[i], <<"-">>) \/ raw[i] = <<"-", "-">>
    THEN [flags |-> <<>>, next |-> i]
    ELSE LET r == TakeFlagsKeepDashDash(raw, i + 1)
         IN  [flags |-> <<raw[i]>> \o r.flags, next |-> r.next]

\* from_fn(next_if(starts with "-")).take_while(!= "--") from position i on:
\* the tokens yielded, and the position raw_args is left at. A token that does
\* not start with '-' is not taken; a "--" is taken and not yielded.
RECURSIVE TakeFlags(_, _)
TakeFlags(raw, i) ==
    IF i > Len(raw) \/ ~StartsWith(raw[i], <<"-">>) THEN [flags |-> <<>>, next |-> i]
    ELSE IF raw[i] = <<"-", "-">> THEN [flags |-> <<>>, next |-> i + 1]
    ELSE LET r == TakeFlags(raw, i + 1)
         IN  [flags |-> <<raw[i]>> \o r.flags, next |-> r.next]

(***************************************************************************)
(* Validation                                                              *)
(***************************************************************************)

MsgAskpass == <<"custom askpass programs are unsupported">>
MsgCloseFrom(n) == <<"close-from must be exactly 3 or unspecified, was {}", n>>
MsgEdit == <<"editing is not supported">>
MsgList == <<"listing privileges is unsupported">>
MsgOtherUser == <<"listing privileges of other users is unsupported">>
MsgNoUpdate == <<"cached credentials are always updated">>
MsgPreserveGroups == <<"cannot preserve groups">>
MsgStdin == <<"cannot use stdin/stderr for the password prompt">>
MsgPrompt == <<"password prompt cannot be overridden">>
MsgValidate == <<"cannot validate credentials">>
MsgPreserveAllEnv == <<"you may not preserve the entire environment, you cretin!">>
MsgBackground == <<"cannot run commands in the background">>
MsgTimestamp == <<"cannot alter sudo timestamps">>
\* A diagnostic copied from the check above and not changed.
MsgChrootCopied == <<"cannot alter sudo timestamps">>

MsgChroot == <<"chroot is unimplemented">>

MsgCommandTimeout == <<"command timeouts are unimplemented">>

\* The comparison of close_from with 3 written as an ordering.
CloseFromBelow(a) == a.close_from < 3

CloseFromRejected(a) == a.close_from # 3

\* The check of preserve_groups left out.
PreserveGroupsAllowed(a) == FALSE

PreserveGroupsRejected(a) == a.preserve_groups

\* The checks of main in the order of the source, each with its diagnostic.
ValidationRules(a, e) ==
    << [cond |-> a.askpass /\ e.SUDO_ASKPASS.some, msg |-> MsgAskpass],
       [cond |-> CloseFromRejected(a), msg |-> MsgCloseFrom(a.close_from)],
       [cond |-> a.edit, msg |-> MsgEdit],
       [cond |-> a.list, msg |-> MsgList],
       [cond |-> a.other_user.some, msg |-> MsgOtherUser],
       [cond |-> a.no_update, msg |-> MsgNoUpdate],
       [cond |-> PreserveGroupsRejected(a), msg |-> MsgPreserveGroups],
       [cond |-> a.stdin, msg |-> MsgStdin],
       [cond |-> a.prompt.some \/ e.SUDO_PROMPT.some, msg |-> MsgPrompt],
       [cond |-> a.validate, msg |-> MsgValidate],
       [cond |-> a.preserve_all_env, msg |-> MsgPreserveAllEnv],
       [cond |-> a.background, msg |-> MsgBackground],
       [cond |-> a.remove_timestamp \/ a.reset_timestamp, msg |-> MsgTimestamp],
       [cond |-> a.chroot.some, msg |-> MsgChroot],
       [cond |-> a.command_timeout.some, msg |-> MsgCommandTimeout] >>

\* The check that reports taken to be the last one whose condition holds.
LastViolated(rules) ==
    IF \E i \in 1..Len(rules) : rules[i].cond
    THEN CHOOSE i \in 1..Len(rules) :
             rules[i].cond /\ \A j \in (i + 1)..Len(rules) : ~rules[j].cond
    ELSE 0

\* Each check ends in exit!, so the first check whose condition holds is the
\* one that reports; 0 when none holds.
FirstViolated(rules) ==
    IF \E i \in 1..Len(rules) : rules[i].cond
    THEN CHOOSE i \in 1..Len(rules) :
             rules[i].cond /\ \A j \in 1..(i - 1) : ~rules[j].cond
    ELSE 0

(***************************************************************************)
(* The run0 arguments                                                      *)
(***************************************************************************)

NoAskPassword == <<"-", "-", "n", "o", "-", "a", "s", "k", "-", "p", "a", "s", "s", "w", "o", "r", "d">>

\* Lines 201-230: the tokens added for the flags, "--" included.
FlagTokens(a) ==
    (IF a.chdir.some THEN <<<<"-", "D">>, a.chdir.val>> ELSE <<>>)
    \o [i \in 1..Len(a.preserve_env) |-> <<"-", "-", "s", "e", "t", "e", "n", "v", "=">> \o a.preserve_env[i]]
    \o (IF a.group.some THEN <<<<"-", "g">>, a.group.val>> ELSE <<>>)
    \o (IF a.user.some THEN <<<<"-", "u">>, a.user.val>> ELSE <<>>)
    \o (IF a.host.some THEN <<<<"-", "-", "m", "a", "c", "h", "i", "n", "e", "=">> \o a.host.val>> ELSE <<>>)
    \o (IF a.non_interactive THEN <<NoAskPassword>> ELSE <<>>)
    \o (IF a.preserve_groups THEN <<NoAskPassword>> ELSE <<>>)
    \o <<<<"-", "-">>>>

(***************************************************************************)
(* The account database and the target shell                               *)
(***************************************************************************)

\* users::get_user_by_name and users::get_user_by_uid, mapped to the shell
\* of the account found.
ShellByName(db, name) ==
    IF \E u \in db.users : u.name = name
    THEN Some((CHOOSE u \in db.users : u.name = name).shell)
    ELSE None

ShellByUid(db, uid) ==
    IF \E u \in db.users : u.uid = uid
    THEN Some((CHOOSE u \in db.users : u.uid = uid).shell)
    ELSE None

\* The account database queries of lines 239-254.
ShellLookups(a, e, db) ==
    IF a.login
    THEN IF a.user.some THEN << <<"name", a.user.val>> >> ELSE << <<"uid", 0>> >>
    ELSE IF e.SHELL.some THEN <<>> ELSE << <<"uid", db.uid>> >>

\* Lines 239-254: the shell to run, None when the account is not found.
TargetShell(a, e, db) ==
    IF a.login
    THEN IF a.user.some THEN ShellByName(db, a.user.val) ELSE ShellByUid(db, 0)
    ELSE IF e.SHELL.some THEN e.SHELL ELSE ShellByUid(db, db.uid)

\* The login flag given in either shell mode.
LoginFlagAlways(a) == <<<<"-", "-", "l", "o", "g", "i", "n">>>>

LoginFlag(a) == IF a.login THEN <<<<"-", "-", "l", "o", "g", "i", "n">>>> ELSE <<>>

(***************************************************************************)
(* Shell escaping                                                          *)
(***************************************************************************)

\* The allow-list without '_', '-' and '$'.
NeedsEscapeStrict(c) == c \notin AsciiAlphanumeric

NeedsEscape(c) == c \notin {"_", "-", "$"} /\ c \notin AsciiAlphanumeric

RECURSIVE shell_escape_arg(_)
shell_escape_arg(s) ==
    IF s = <<>> THEN <<>>
    ELSE (IF NeedsEscape(Head(s)) THEN <<"\\", Head(s)>> ELSE <<Head(s)>>)
         \o shell_escape_arg(Tail(s))

Separator == <<" ">>

\* [String]::join
RECURSIVE Join(_, _)
Join(strs, sep) ==
    IF strs = <<>> THEN <<>>
    ELSE IF Len(strs) = 1 THEN strs[1]
    ELSE strs[1] \o sep \o Join(Tail(strs), sep)

shell_escape(c) == Join([i \in 1..Len(c) |-> shell_escape_arg(c[i])], Separator)

ShellTokens(a, sh, c) ==
    <<sh>> \o LoginFlag(a)
    \o (IF c # <<>> THEN <<<<"-", "c">>, shell_escape(c)>> ELSE <<>>)

\* The test for an empty command left out.
CommandNeverMissing(c) == FALSE

CommandMissing(c) == c = <<>>

(***************************************************************************)
(* main, step by step                                                      *)
(***************************************************************************)

\* exit!: print the diagnostic and exit with 1.
Exit(msg) ==
    /\ stderr' = Append(stderr, msg)
    /\ status' = 1
    /\ pc' = "exited"

\* Lines 111-112
NewCommand ==
    /\ pc = "start"
    /\ cmd' = <<<<"-", "-", "b", "a", "c", "k", "g", "r", "o", "u", "n", "d", "=">>>>
    /\ pc' = "parse"
    /\ UNCHANGED <<argv, env, passwd, flagToks, rest, args, command, stderr, status, lookups>>

\* Lines 114-126, clap reporting an error (exit status 2)
ParseError ==
    /\ pc = "parse"
    /\ LET t == TakeFlags(argv, 1)
       IN  /\ ParseFrom(t.flags).kind = "error"
           /\ flagToks' = t.flags
           /\ rest' = DropFirst(argv, t.next - 1)
    /\ stderr' = Append(stderr, <<"error: (clap usage error)">>)
    /\ status' = 2
    /\ pc' = "exited"
    /\ UNCHANGED <<argv, env, passwd, cmd, args, command, lookups>>

\* Lines 114-126, clap printing the help or the version (exit status 0)
ParseDisplay ==
    /\ pc = "parse"
    /\ LET t == TakeFlags(argv, 1)
       IN  /\ ParseFrom(t.flags).kind = "display"
           /\ flagToks' = t.flags
           /\ rest' = DropFirst(argv, t.next - 1)
    /\ status' = 0
    /\ pc' = "exited"
    /\ UNCHANGED <<argv, env, passwd, cmd, args, command, stderr, lookups>>

\* Lines 114-126
ParseArgs ==
    /\ pc = "parse"
    /\ LET t == TakeFlags(argv, 1)
           p == ParseFrom(t.flags)
       IN  /\ p.kind = "ok"
           /\ flagToks' = t.flags
           /\ rest' = DropFirst(argv, t.next - 1)
           /\ args' = p.a
    /\ pc' = "collect"
    /\ UNCHANGED <<argv, env, passwd, cmd, command, stderr, status, lookups>>

\* Lines 128-130, every remaining argument being UTF-8
CollectCommand ==
    /\ pc = "collect"
    /\ \A i \in 1..Len(rest) : IsUtf8(rest[i])
    /\ command' = rest
    /\ pc' = "validate"
    /\ UNCHANGED <<argv, env, passwd, cmd, flagToks, rest, args, stderr, status, lookups>>

\* Lines 128-130, some remaining argument not being UTF-8
CollectFails ==
    /\ pc = "collect"
    /\ \E i \in 1..Len(rest) : ~IsUtf8(rest[i])
    /\ Exit(<<"failed to parse arguments as utf8">>)
    /\ UNCHANGED <<argv, env, passwd, cmd, flagToks, rest, args, command, lookups>>

\* Lines 134-197, some check failing
Reject ==
    /\ pc = "validate"
    /\ LET rules == ValidationRules(args, env)
           i == FirstViolated(rules)
       IN  /\ i # 0
           /\ Exit(rules[i].msg)
    /\ UNCHANGED <<argv, env, passwd, cmd, flagToks, rest, args, command, lookups>>

\* Lines 134-197, every check passing
Accept ==
    /\ pc = "validate"
    /\ FirstViolated(ValidationRules(args, env)) = 0
    /\ pc' = "flags"
    /\ UNCHANGED <<argv, env, passwd, cmd, flagToks, rest, args, command, stderr, status, lookups>>

\* Lines 201-230
BuildFlags ==
    /\ pc = "flags"
    /\ cmd' = cmd \o FlagTokens(args)
    /\ pc' = "command"
    /\ UNCHANGED <<argv, env, passwd, flagToks, rest, args, command, stderr, status, lookups>>

\* Lines 232-235
NoShellMissing ==
    /\ pc = "command"
    /\ no_shell(args)
    /\ CommandMissing(command)
    /\ Exit(<<"must specify --login, --shell, or a COMMAND">>)
    /\ UNCHANGED <<argv, env, passwd, cmd, flagToks, rest, args, command, lookups>>

\* Lines 232-237
NoShellCommand ==
    /\ pc = "command"
    /\ no_shell(args)
    /\ ~CommandMissing(command)
    /\ cmd' = cmd \o command
    /\ pc' = "exec"
    /\ UNCHANGED <<argv, env, passwd, flagToks, rest, args, command, stderr, status, lookups>>

\* Lines 239-254, the account not being found
ShellLookupFails ==
    /\ pc = "command"
    /\ ~no_shell(args)
    /\ ~TargetShell(args, env, passwd).some
    /\ lookups' = lookups \o ShellLookups(args, env, passwd)
    /\ Exit(<<"failed to lookup the target user's shell">>)
    /\ UNCHANGED <<argv, env, passwd, cmd, flagToks, rest, args, command>>

\* Lines 239-263
ShellCommand ==
    /\ pc = "command"
    /\ ~no_shell(args)
    /\ TargetShell(args, env, passwd).some
    /\ lookups' = lookups \o ShellLookups(args, env, passwd)
    /\ cmd' = cmd \o ShellTokens(args, TargetShell(args, env, passwd).val, command)
    /\ pc' = "exec"
    /\ UNCHANGED <<argv, env, passwd, flagToks, rest, args, command, stderr, status>>

\* Line 265: exec replaces the process image and does not return
ExecSucceeds ==
    /\ pc = "exec"
    /\ pc' = "replaced"
    /\ UNCHANGED <<argv, env, passwd, cmd, flagToks, rest, args, command, stderr, status, lookups>>

\* Lines 265-266: exec returns an error
ExecFails ==
    /\ pc = "exec"
    /\ Exit(<<"failed to execute command: {}", "err">>)
    /\ UNCHANGED <<argv, env, passwd, cmd, flagToks, rest, args, command, lookups>>

Next ==
    \/ NewCommand
    \/ ParseError
    \/ ParseDisplay
    \/ ParseArgs
    \/ CollectCommand
    \/ CollectFails
    \/ Reject
    \/ Accept
    \/ BuildFlags
    \/ NoShellMissing
    \/ NoShellCommand
    \/ ShellLookupFails
    \/ ShellCommand
    \/ ExecSucceeds
    \/ ExecFails

(***************************************************************************)
(* The command lines, environments and account databases covered          *)
(***************************************************************************)

MaxFlags == 3
MaxArgs == 3
MaxLen == 2
MaxWords == 2

NoEnv == [SUDO_ASKPASS |-> None, SUDO_PROMPT |-> None, SHELL |-> None]

Root == [name |-> <<"r", "o", "o", "t">>, uid |-> 0, shell |-> <<"/", "b", "i", "n", "/", "s", "h">>]
Bob == [name |-> <<"b", "o", "b">>, uid |-> 1000, shell |-> <<"/", "b", "i", "n", "/", "z", "s", "h">>]
Me == [name |-> <<"m", "e">>, uid |-> 1001, shell |-> <<"/", "b", "i", "n", "/", "b", "a", "s", "h">>]

Accounts == [users |-> {Root, Bob, Me}, uid |-> 1001]

\* Account databases: complete, lacking one account, or with an account
\* whose shell field is empty.
PasswdChoices ==
    { Accounts,
      [Accounts EXCEPT !.users = {Root, Me}],
      [Accounts EXCEPT !.users = {Bob, Me}],
      [Accounts EXCEPT !.users = {Root, Bob}],
      [Accounts EXCEPT !.users = {[Root EXCEPT !.shell = <<>>], Bob, Me}],
      [Accounts EXCEPT !.users = {Root, [Bob EXCEPT !.shell = <<>>], Me}] }

SeqsUpTo(S, n) == UNION { [1..k -> S] : k \in 0..n }

\* The elements of seq at the positions in S, in order.
RECURSIVE Pick(_, _)
Pick(seq, S) ==
    IF S = {} THEN <<>>
    ELSE LET m == CHOOSE x \in S : \A y \in S : x <= y
         IN  <<seq[m]>> \o Pick(seq, S \ {m})

Selections(seq, n) == { Pick(seq, S) : S \in { T \in SUBSET (1..Len(seq)) : Cardinality(T) <= n } }

\* One token per check of the validation, and two translated flags.
ValidationTokens ==
    << <<"-", "A">>, <<"-", "C", "1", "0">>, <<"-", "e">>, <<"-", "l">>, <<"-", "U", "b", "o", "b">>, <<"-", "N">>, <<"-", "P">>, <<"-", "S">>, <<"-", "p", "P", "W">>,
       <<"-", "v">>, <<"-", "E">>, <<"-", "b">>, <<"-", "K">>, <<"-", "k">>, <<"-", "R", "/", "r">>, <<"-", "T", "5">>, <<"-", "n">>, <<"-", "i">> >>

\* Up to MaxFlags of these flags before a command, under every combination of
\* SUDO_ASKPASS and SUDO_PROMPT.
ValidationInputs ==
    { [argv |-> f \o <<<<"l", "s">>>>,
       env |-> [NoEnv EXCEPT !.SUDO_ASKPASS = ap, !.SUDO_PROMPT = pr],
       passwd |-> Accounts] :
        f \in Selections(ValidationTokens, MaxFlags),
        ap \in {None, Some(<<"/", "a", "p">>)},
        pr \in {None, Some(<<"P", "W">>)} }

AcceptedTokens ==
    << <<"-", "D", "/", "w">>, <<"-", "-", "p", "r", "e", "s", "e", "r", "v", "e", "-", "e", "n", "v", "=", "P", "A", "T", "H", ",", "H", "O", "M", "E">>, <<"-", "-", "p", "r", "e", "s", "e", "r", "v", "e", "-", "e", "n", "v", "=", "X">>, <<"-", "g", "w", "h", "e", "e", "l">>,
       <<"-", "u", "b", "o", "b">>, <<"-", "-", "h", "o", "s", "t", "=", "h">>, <<"-", "n">>, <<"-", "i">>, <<"-", "s">> >>

Commands == { <<>>, <<<<"l", "s">>>>, <<<<"/", "b", "i", "n", "/", "e", "c", "h", "o">>, <<"h", "i", " ", "t", "h", "e", "r", "e">>>> }

\* Every combination of the translated flags, with and without a command.
BuildInputs ==
    { [argv |-> f \o c, env |-> NoEnv, passwd |-> Accounts] :
        f \in Selections(AcceptedTokens, Len(AcceptedTokens)),
        c \in Commands }

ShellFlags ==
    { <<<<"-", "i">>>>, <<<<"-", "s">>>>, <<<<"-", "i">>, <<"-", "u", "b", "o", "b">>>>, <<<<"-", "s">>, <<"-", "u", "b", "o", "b">>>>,
      <<<<"-", "-", "l", "o", "g", "i", "n">>, <<"-", "-", "u", "s", "e", "r", "=", "r", "o", "o", "t">>>>, <<<<"-", "-", "s", "h", "e", "l", "l">>, <<"-", "n">>>> }

\* The shell modes under every account database and value of SHELL.
ShellInputs ==
    { [argv |-> f \o c, env |-> [NoEnv EXCEPT !.SHELL = sh], passwd |-> db] :
        f \in ShellFlags,
        c \in Commands,
        sh \in {None, Some(<<"/", "b", "i", "n", "/", "f", "i", "s", "h">>), Some(<<>>)},
        db \in PasswdChoices }

QuoteAlphabet == {"a", "0", "_", "-", "$", " ", "\\", "\n", "'"}

PlainWords == { <<>>, <<"a">> }

\* The words around the word under test: up to n plain words in all.
Surroundings(n) ==
    { pp \in SeqsUpTo(PlainWords, n) \X SeqsUpTo(PlainWords, n) : Len(pp[1]) + Len(pp[2]) <= n }

\* Commands of up to MaxWords words run by a shell: one word of up to MaxLen
\* characters of QuoteAlphabet among plain words.
QuoteInputs ==
    { [argv |-> <<<<"-", "s">>>> \o pp[1] \o <<w>> \o pp[2],
       env |-> [NoEnv EXCEPT !.SHELL = Some(<<"/", "b", "i", "n", "/", "s", "h">>)],
       passwd |-> Accounts] :
        w \in SeqsUpTo(QuoteAlphabet, MaxLen),
        pp \in Surroundings(MaxWords - 1) }

RawTokens == { <<"-", "n">>, <<"-", "H">>, <<"-", "V">>, <<"-", "-">>, <<"-">>, <<"l", "s">>, <<BadByte>>, <<>> }

\* Every argument list of up to MaxArgs of these tokens.
PartitionInputs ==
    { [argv |-> a, env |-> NoEnv, passwd |-> Accounts] : a \in SeqsUpTo(RawTokens, MaxArgs) }

Inputs == ValidationInputs \cup BuildInputs \cup ShellInputs \cup QuoteInputs \cup PartitionInputs

Init ==
    /\ \E in \in Inputs :
        /\ argv = in.argv
        /\ env = in.env
        /\ passwd = in.passwd
    /\ pc = "start"
    /\ cmd = <<>>
    /\ flagToks = <<>>
    /\ rest = <<>>
    /\ args = DefaultArgs
    /\ command = <<>>
    /\ stderr = <<>>
    /\ status = -1
    /\ lookups = <<>>

Spec == Init /\ [][Next]_vars

(***************************************************************************)
(* How a POSIX shell reads the string given to -c                          *)
(***************************************************************************)

\* Unquoted characters that can have a meaning of their own to the shell:
\* operators, quotes, patterns, comments, assignments, reserved words and the
\* newline that ends a command. A string holding one of them unquoted is not
\* read here as a plain list of words.
ShellSpecial == {"\n", "'", "\"", ";", "&", "|", "<", ">", "(", ")", "*", "?", "[", "#", "~", "=", "{", "}", "!", "%"}

NameStart == {"a", "b", "c", "d", "e", "f", "g", "h", "i", "j", "k", "l", "m", "n", "o", "p", "q", "r", "s", "t", "u", "v", "w", "x", "y", "z", "A", "B", "C", "D", "E", "F", "G", "H", "I", "J", "K", "L", "M", "N", "O", "P", "Q", "R", "S", "T", "U", "V", "W", "X", "Y", "Z", "_"}

NameChars == NameStart \cup Digits

\* $ followed by one of these is an expansion: a name, a positional
\* parameter or a special parameter.
ParameterStart == NameChars \cup {"$", "-", "?", "!", "#", "*", "@"}

\* The length of the parameter that starts at s[i]: the longest name, or one
\* character for a positional or special parameter.
RECURSIVE NameLen(_, _)
NameLen(s, i) ==
    IF i > Len(s) \/ s[i] \notin NameChars THEN 0 ELSE 1 + NameLen(s, i + 1)

ParameterLen(s, i) == IF s[i] \in NameStart THEN NameLen(s, i) ELSE 1

\* The value a parameter expands to, in a shell started with no variable,
\* option or positional parameter set: $$ is the process id, $? the last
\* status, $0 the shell's name, $# the number of positional parameters, and
\* every other parameter is empty.
ParameterValue(name) ==
    IF name = <<"$">> THEN <<"4", "7", "1", "1">>
    ELSE IF name = <<"?">> THEN <<"0">>
    ELSE IF name = <<"#">> THEN <<"0">>
    ELSE IF name = <<"0">> THEN <<"s", "h">>
    ELSE <<>>

\* The words of the string s from position i on, cur being the word in
\* progress and open whether there is one. A backslash makes the next
\* character literal, and a backslash-newline pair is removed; blanks end a
\* word; an unquoted expansion that yields nothing adds nothing.
RECURSIVE ShellScan(_, _, _, _, _)
ShellScan(s, i, cur, open, words) ==
    IF i > Len(s) THEN [ok |-> TRUE, words |-> IF open THEN Append(words, cur) ELSE words]
    ELSE IF s[i] = "\\"
    THEN IF i = Len(s) THEN ShellScan(s, i + 1, Append(cur, "\\"), TRUE, words)
         ELSE IF s[i + 1] = "\n" THEN ShellScan(s, i + 2, cur, open, words)
         ELSE ShellScan(s, i + 2, Append(cur, s[i + 1]), TRUE, words)
    ELSE IF s[i] \in {" ", "\t"}
    THEN ShellScan(s, i + 1, <<>>, FALSE, IF open THEN Append(words, cur) ELSE words)
    ELSE IF s[i] = "$" /\ i < Len(s) /\ s[i + 1] \in ParameterStart
    THEN LET n == ParameterLen(s, i + 1)
             v == ParameterValue(SubSeq(s, i + 1, i + n))
         IN  ShellScan(s, i + 1 + n, cur \o v, open \/ v # <<>>, words)
    ELSE IF s[i] \in ShellSpecial THEN [ok |-> FALSE, words |-> <<>>]
    ELSE ShellScan(s, i + 1, Append(cur, s[i]), TRUE, words)

ShellWords(s) == ShellScan(s, 1, <<>>, FALSE, <<>>)

(***************************************************************************)
(* Properties                                                              *)
(***************************************************************************)

\* The tokens of a run0 argument vector after its first "--".
Trailing(c) == DropFirst(c, IndexOf(c, <<"-", "-">>))

\* The run passed the collection of the command: it is in, or ended in or
\* after, the validation.
ValidationDone ==
    \/ pc \in {"flags", "command", "exec", "replaced"}
    \/ pc = "exited" /\ status = 1 /\ command = rest

ShellMode == args.login \/ args.shell

\* C1: the shell splits shell_escape's output back into the command: the
\* same words, character for character.
C1_RoundTrip ==
    (pc = "exec" /\ ShellMode /\ command # <<>>) =>
        LET r == ShellWords(cmd[Len(cmd)])
        IN  r.ok /\ r.words = command

\* The rules in the order the validation is said to follow.
RuleHolds(i) ==
    CASE i = 1 -> args.askpass /\ env.SUDO_ASKPASS.some
      [] i = 2 -> args.close_from # 3
      [] i = 3 -> args.edit
      [] i = 4 -> args.list
      [] i = 5 -> args.other_user.some
      [] i = 6 -> args.no_update
      [] i = 7 -> args.preserve_groups
      [] i = 8 -> args.stdin
      [] i = 9 -> args.prompt.some \/ env.SUDO_PROMPT.some
      [] i = 10 -> args.validate
      [] i = 11 -> args.preserve_all_env
      [] i = 12 -> args.background
      [] i = 13 -> args.remove_timestamp \/ args.reset_timestamp
      [] i = 14 -> args.chroot.some
      [] i = 15 -> args.command_timeout.some

RuleDiagnostics(i) ==
    CASE i = 1 -> {MsgAskpass}
      [] i = 2 -> {MsgCloseFrom(n) : n \in (0..11) \ {3}}
      [] i = 3 -> {MsgEdit}
      [] i = 4 -> {MsgList}
      [] i = 5 -> {MsgOtherUser}
      [] i = 6 -> {MsgNoUpdate}
      [] i = 7 -> {MsgPreserveGroups}
      [] i = 8 -> {MsgStdin}
      [] i = 9 -> {MsgPrompt}
      [] i = 10 -> {MsgValidate}
      [] i = 11 -> {MsgPreserveAllEnv}
      [] i = 12 -> {MsgBackground}
      [] i = 13 -> {MsgTimestamp}
      [] i = 14 -> {MsgChroot}
      [] i = 15 -> {MsgCommandTimeout}

RuleIds == 1..15

Violated == { i \in RuleIds : RuleHolds(i) }

Earliest(S) == CHOOSE i \in S : \A j \in S : i <= j

\* C2: at most one diagnostic is ever printed, and once the validation is
\* done a run with a violated rule has exited with status 1 and exactly the
\* diagnostic of the earliest violated rule, while a run with none has
\* printed no rule's diagnostic.
C2_FirstRuleOnly ==
    /\ Len(stderr) <= 1
    /\ ValidationDone =>
        IF Violated # {}
        THEN /\ pc = "exited"
             /\ status = 1
             /\ Len(stderr) = 1
             /\ stderr[1] \in RuleDiagnostics(Earliest(Violated))
             /\ \A j \in RuleIds \ {Earliest(Violated)} : stderr[1] \notin RuleDiagnostics(j)
        ELSE \A i \in 1..Len(stderr) : \A j \in RuleIds : stderr[i] \notin RuleDiagnostics(j)

\* Two or more rules are violated and the run was rejected.
C2_Witness ==
    /\ pc = "exited"
    /\ ValidationDone
    /\ Cardinality(Violated) >= 2
    /\ args.chroot.some
    /\ args.edit
    /\ stderr = <<MsgEdit>>

\* The flags that are rejected, each with the rule that is its cause.
CauseOf ==
    [ askpass |-> 1, close_from |-> 2, edit |-> 3, list |-> 4, other_user |-> 5,
      no_update |-> 6, preserve_groups |-> 7, stdin |-> 8, prompt |-> 9, validate |-> 10,
      preserve_all_env |-> 11, background |-> 12, remove_timestamp |-> 13,
      reset_timestamp |-> 13, chroot |-> 14, command_timeout |-> 15 ]

\* Flag f is the only field of the arguments that has not its default.
OnlyField(f) ==
    /\ args[f] # DefaultArgs[f]
    /\ \A g \in (DOMAIN DefaultArgs) \ {f} : args[g] = DefaultArgs[g]

\* Only flag f is set, and neither SUDO_ASKPASS nor SUDO_PROMPT.
OnlyFlagAlone(f) ==
    /\ OnlyField(f)
    /\ ~env.SUDO_PROMPT.some
    /\ ~env.SUDO_ASKPASS.some

\* Only flag f is set and SUDO_PROMPT is unset; SUDO_ASKPASS is set just when
\* f is the askpass flag, which makes it a request for a custom program.
OnlyFlag(f) ==
    /\ OnlyField(f)
    /\ ~env.SUDO_PROMPT.some
    /\ env.SUDO_ASKPASS.some <=> (f = "askpass")

\* The run has exited with status 1 and one diagnostic, which is one of the
\* cause of flag f and of no other cause.
RejectedFor(f) ==
    /\ pc = "exited"
    /\ status = 1
    /\ Len(stderr) = 1
    /\ stderr[1] \in RuleDiagnostics(CauseOf[f])
    /\ \A g \in DOMAIN CauseOf :
           CauseOf[g] # CauseOf[f] => stderr[1] \notin RuleDiagnostics(CauseOf[g])

\* C3 as stated: a run with only one of the listed flags set, and a command,
\* ends once the validation is done with status 1 and one diagnostic, which
\* is one of that flag's cause and of no other cause, and never gets to exec.
C3_EachFlagAlone ==
    \A f \in DOMAIN CauseOf :
        (ValidationDone /\ OnlyFlagAlone(f) /\ command # <<>>) => RejectedFor(f)

\* C3, amended: the same with the askpass flag counted as a request for a
\* custom askpass program only when SUDO_ASKPASS is set; with only the
\* askpass flag set and SUDO_ASKPASS unset the run is not rejected.
C3_EachFlagRejected ==
    /\ \A f \in DOMAIN CauseOf :
        (ValidationDone /\ OnlyFlag(f) /\ command # <<>>) => RejectedFor(f)
    /\ (ValidationDone /\ OnlyFlagAlone("askpass") /\ command # <<>>) =>
        /\ pc # "exited" \/ stderr = << <<"failed to execute command: {}", "err">> >>
        /\ \A i \in 1..Len(stderr) : \A j \in RuleIds : stderr[i] \notin RuleDiagnostics(j)

\* Only the askpass flag is set, with SUDO_ASKPASS and a command, and the
\* run was rejected.
C3_Witness ==
    /\ pc = "exited"
    /\ ValidationDone
    /\ OnlyFlag("askpass")
    /\ command = <<<<"l", "s">>>>
    /\ stderr = <<MsgAskpass>>

\* C4 as stated: when a run is rejected nothing of the run0 argument vector
\* has been built, no account was looked up, and exec is not reached.
C4_NothingBuilt ==
    (ValidationDone /\ Violated # {}) =>
        /\ pc = "exited"
        /\ status = 1
        /\ cmd = <<>>
        /\ lookups = <<>>

\* C4, amended: when a run is rejected the run0 argument vector holds only
\* the "--background=" that main puts there before it parses anything, no
\* account was looked up, and exec is not reached.
C4_OnlyBackgroundBuilt ==
    (ValidationDone /\ Violated # {}) =>
        /\ pc = "exited"
        /\ status = 1
        /\ cmd = <<<<"-", "-", "b", "a", "c", "k", "g", "r", "o", "u", "n", "d", "=">>>>
        /\ lookups = <<>>

\* A login shell was asked for with close-from 10, and the run was rejected.
C4_Witness ==
    /\ pc = "exited"
    /\ ValidationDone
    /\ args.close_from = 10
    /\ args.login
    /\ stderr = <<MsgCloseFrom(10)>>

\* The run0 arguments up to and including "--" that the flags call for.
ExpectedFlags ==
    <<<<"-", "-", "b", "a", "c", "k", "g", "r", "o", "u", "n", "d", "=">>>>
    \o (IF args.chdir.some THEN <<<<"-", "D">>, args.chdir.val>> ELSE <<>>)
    \o [i \in 1..Len(args.preserve_env) |-> <<"-", "-", "s", "e", "t", "e", "n", "v", "=">> \o args.preserve_env[i]]
    \o (IF args.group.some THEN <<<<"-", "g">>, args.group.val>> ELSE <<>>)
    \o (IF args.user.some THEN <<<<"-", "u">>, args.user.val>> ELSE <<>>)
    \o (IF args.host.some THEN <<<<"-", "-", "m", "a", "c", "h", "i", "n", "e", "=">> \o args.host.val>> ELSE <<>>)
    \o (IF args.non_interactive THEN <<<<"-", "-", "n", "o", "-", "a", "s", "k", "-", "p", "a", "s", "s", "w", "o", "r", "d">>>> ELSE <<>>)
    \o <<<<"-", "-">>>>

\* The run passed the validation and built the flags.
FlagsBuilt == pc \in {"command", "exec", "replaced"} \/ (pc = "exited" /\ Len(cmd) > 1)

\* C5: once the flags are built the argument vector starts with exactly the
\* expected tokens, and holds nothing else until the command is added.
C5_FlagVector ==
    FlagsBuilt =>
        /\ StartsWith(cmd, ExpectedFlags)
        /\ pc = "command" => cmd = ExpectedFlags

\* Every translated flag was given, with PATH and HOME and X preserved.
C5_Witness ==
    /\ pc = "exec"
    /\ args.preserve_env = <<<<"P", "A", "T", "H">>, <<"H", "O", "M", "E">>, <<"X">>>>
    /\ args.chdir.some /\ args.group.some /\ args.user.some /\ args.host.some
    /\ args.non_interactive
    /\ SubSeq(cmd, 4, 6) = <<<<"-", "-", "s", "e", "t", "e", "n", "v", "=", "P", "A", "T", "H">>, <<"-", "-", "s", "e", "t", "e", "n", "v", "=", "H", "O", "M", "E">>, <<"-", "-", "s", "e", "t", "e", "n", "v", "=", "X">>>>

\* C6: without a shell mode, a run that got past the validation either had
\* no command and exited with status 1 and the diagnostic for that, before
\* any exec, or put exactly the command after "--".
C6_NoShell ==
    (FlagsBuilt /\ pc # "command" /\ ~args.login /\ ~args.shell) =>
        IF command = <<>>
        THEN /\ pc = "exited"
             /\ status = 1
             /\ stderr = << <<"must specify --login, --shell, or a COMMAND">> >>
        ELSE /\ Trailing(cmd) = command
             /\ cmd = ExpectedFlags \o command

\* /bin/echo "hi there" is about to be run without a shell.
C6_Witness ==
    /\ pc = "exec"
    /\ ~args.login /\ ~args.shell
    /\ command = <<<<"/", "b", "i", "n", "/", "e", "c", "h", "o">>, <<"h", "i", " ", "t", "h", "e", "r", "e">>>>
    /\ Trailing(cmd) = <<<<"/", "b", "i", "n", "/", "e", "c", "h", "o">>, <<"h", "i", " ", "t", "h", "e", "r", "e">>>>

\* C7: in a shell mode, at the exec the tokens after "--" are the shell,
\* then "--login" just in login mode, then "-c" and the one escaped command
\* string just when there is a command.
C7_ShellTokens ==
    (pc \in {"exec", "replaced"} /\ ShellMode) =>
        LET t == Trailing(cmd)
            l == IF args.login THEN 1 ELSE 0
        IN  /\ Len(t) = 1 + l + (IF command # <<>> THEN 2 ELSE 0)
            /\ args.login => t[2] = <<"-", "-", "l", "o", "g", "i", "n">>
            /\ command # <<>> => (t[2 + l] = <<"-", "c">> /\ t[3 + l] = shell_escape(command))
            /\ command = <<>> => \A i \in 1..Len(t) : t[i] # <<"-", "c">>
            /\ ~args.login => \A i \in 2..Len(t) : t[i] # <<"-", "-", "l", "o", "g", "i", "n">>

\* An interactive shell with SHELL=/bin/fish and no command.
C7_Witness ==
    /\ pc = "exec"
    /\ args.shell
    /\ env.SHELL = Some(<<"/", "b", "i", "n", "/", "f", "i", "s", "h">>)
    /\ command = <<>>
    /\ cmd[Len(cmd)] = <<"/", "b", "i", "n", "/", "f", "i", "s", "h">>

\* The account whose shell a login shell takes, as a set of at most one.
LoginAccount ==
    IF args.user.some THEN { u \in passwd.users : u.name = args.user.val }
    ELSE { u \in passwd.users : u.uid = 0 }

OwnAccount == { u \in passwd.users : u.uid = passwd.uid }

\* The accounts the shell is taken from; SHELL, when it is used instead.
ShellSource ==
    IF args.login THEN LoginAccount
    ELSE IF env.SHELL.some THEN {} ELSE OwnAccount

UsesShellVariable == ~args.login /\ env.SHELL.some

\* C8: in a shell mode, past the resolution of the shell: the shell is
\* SHELL's value in interactive mode when it is set, and else the shell of
\* the account looked up; when that account is missing or has no usable
\* (an empty) shell the run has exited with status 1 and did not exec.
C8_ShellResolution ==
    (FlagsBuilt /\ pc # "command" /\ ShellMode) =>
        IF UsesShellVariable THEN Trailing(cmd)[1] = env.SHELL.val
        ELSE IF \E u \in ShellSource : u.shell # <<>>
        THEN \E u \in ShellSource : Trailing(cmd)[1] = u.shell
        ELSE /\ pc = "exited"
             /\ status = 1
             /\ stderr = << <<"failed to lookup the target user's shell">> >>
             /\ Trailing(cmd) = <<>>

AllowListed == {"a", "b", "c", "d", "e", "f", "g", "h", "i", "j", "k", "l", "m", "n", "o", "p", "q", "r", "s", "t", "u", "v", "w", "x", "y", "z", "A", "B", "C", "D", "E", "F", "G", "H", "I", "J", "K", "L", "M", "N", "O", "P", "Q", "R", "S", "T", "U", "V", "W", "X", "Y", "Z", "0", "1", "2", "3", "4", "5", "6", "7", "8", "9", "_", "-", "$"}

\* The number of characters among the first i of s that are not allow-listed.
Escapes(s, i) == Cardinality({ j \in 1..i : s[j] \notin AllowListed })

\* out is s with one backslash before each character that is not
\* allow-listed, and nothing else added.
EscapedAs(s, out) ==
    /\ Len(out) = Len(s) + Escapes(s, Len(s))
    /\ \A i \in 1..Len(s) :
        /\ out[i + Escapes(s, i)] = s[i]
        /\ s[i] \notin AllowListed => out[i + Escapes(s, i) - 1] = "\\"

\* The length of word w once escaped.
EscapedLen(w) == Len(w) + Escapes(w, Len(w))

\* Where word k starts in the escaped words joined by one space each.
RECURSIVE EscapedStart(_, _)
EscapedStart(words, k) ==
    IF k = 1 THEN 1 ELSE EscapedStart(words, k - 1) + EscapedLen(words[k - 1]) + 1

\* C9: the string after -c is the escaped words in order, each as EscapedAs
\* says, with exactly one space between consecutive words and nothing before
\* the first or after the last; a word of allow-listed characters only is
\* there unchanged.
C9_EscapeRule ==
    (pc = "exec" /\ ShellMode /\ command # <<>>) =>
        LET out == cmd[Len(cmd)]
            n == Len(command)
            from(k) == EscapedStart(command, k)
            to(k) == from(k) + EscapedLen(command[k]) - 1
        IN  /\ Len(out) = to(n)
            /\ \A k \in 1..n :
                /\ EscapedAs(command[k], SubSeq(out, from(k), to(k)))
                /\ k < n => out[to(k) + 1] = " "
                /\ (\A j \in 1..Len(command[k]) : command[k][j] \in AllowListed)
                       => SubSeq(out, from(k), to(k)) = command[k]

\* A word with allow-listed and other characters between two plain words.
C9_Witness ==
    /\ pc = "exec"
    /\ ShellMode
    /\ Len(command) = 2
    /\ command[1] = <<"a">>
    /\ command[2] = <<"$", " ">>
    /\ cmd[Len(cmd)] = <<"a", " ", "$", "\\", " ">>

\* The number of leading tokens that start with '-' and are not "--".
FlagRun ==
    LET isFlag(j) == argv[j] # <<>> /\ argv[j][1] = "-" /\ argv[j] # <<"-", "-">>
    IN  CHOOSE k \in 0..Len(argv) :
            /\ \A j \in 1..k : isFlag(j)
            /\ k < Len(argv) => ~isFlag(k + 1)

\* Whether the flags end at a "--".
FlagRunEndsAtDashDash == FlagRun < Len(argv) /\ argv[FlagRun + 1] = <<"-", "-">>

\* C10: once the arguments are parsed the flag tokens are the leading run of
\* tokens that start with '-', up to the first "--"; that "--" is dropped;
\* every token after is left, in order and unchanged, and becomes the command;
\* the parsed flags are those of the flag tokens alone.
C10_Partition ==
    (pc \notin {"start", "parse"}) =>
        /\ flagToks = SubSeq(argv, 1, FlagRun)
        /\ rest = SubSeq(argv, FlagRun + (IF FlagRunEndsAtDashDash THEN 2 ELSE 1), Len(argv))
        /\ argv = flagToks \o (IF FlagRunEndsAtDashDash THEN <<<<"-", "-">>>> ELSE <<>>) \o rest
        /\ ValidationDone => command = rest
        /\ (pc # "exited" \/ status = 1) => args = ParseFrom(flagToks).a

\* A "--" ended the flags and the command holds a token that starts with
\* '-' and a "--" of its own.
C10_Witness ==
    /\ pc = "exec"
    /\ argv = <<<<"-", "n">>, <<"-", "-">>, <<"-", "-">>>>
    /\ flagToks = <<<<"-", "n">>>>
    /\ command = <<<<"-", "-">>>>

====
